---- MODULE Spec2Model ----
(***************************************************************************)
(* github-actions-mcp: the access-control engine (checkPermission,         *)
(* checkRepoAccess, matchesAny), the tool handlers that call it before     *)
(* every remote request, the CircuitBreaker state machine, withTimeout,    *)
(* parseRateLimitHeaders and loadConfig.                                   *)
(*                                                                         *)
(* A JavaScript string is the sequence of its characters; the characters   *)
(* are one-letter names, "*" and "/".  String equality (===) is equality   *)
(* of sequences, and split("/") is computed by scanning for "/".           *)
(***************************************************************************)
EXTENDS Integers, Sequences, FiniteSets, TLC

VARIABLES
    config,       \* the Config object loadConfig() returned (index.ts: const config)
    warned,       \* the --bypass-permissions warning was written to stderr
    call,         \* the last direct call of an exported check and what it did
    pc,           \* where the current tool invocation is
    tool,         \* the tool being invoked
    repoArg,      \* its `repo` argument
    opt,          \* its optional argument / the response data that picks the branch
    trace,        \* what the invocation has done so far, in order
    failures,     \* CircuitBreaker.failures
    lastFailure,  \* CircuitBreaker.lastFailure
    isOpen,       \* CircuitBreaker.isOpen
    now,          \* Date.now()
    ticks,        \* how many times the clock has advanced
    brCall,       \* the last CircuitBreaker method called and what it did
    streak,       \* failure() calls in a row since a closed breaker with failures = 0
    ms,           \* withTimeout: the bound it was called with
    message,      \* withTimeout: the caller's message, or undefined
    promise,      \* withTimeout: the wrapped operation's promise
    timer,        \* withTimeout: the timer setTimeout created
    raced,        \* withTimeout: the promise Promise.race returned
    observed,     \* the settlements the caller of withTimeout was handed, in order
    winner,       \* which of the operation and the timer settled first
    elapsed,      \* milliseconds since withTimeout was called
    advances,     \* how many times that clock has advanced
    headers,      \* the response headers parseRateLimitHeaders is called with
    rateLimit,    \* what parseRateLimitHeaders returned
    running,      \* per caller, the CircuitBreaker method it is inside and where
    serial        \* the breaker the completed method calls give, run one by one

accessVars  == <<config, warned, call>>
toolVars    == <<pc, tool, repoArg, opt, trace>>
breakerVars == <<failures, lastFailure, isOpen, now, ticks, brCall, streak>>
timeoutVars == <<ms, message, promise, timer, raced, observed, winner, elapsed, advances>>
rateVars    == <<headers, rateLimit>>
stepVars    == <<running, serial>>
vars        == <<config, warned, call, pc, tool, repoArg, opt, trace,
                 failures, lastFailure, isOpen, now, ticks, brCall, streak,
                 ms, message, promise, timer, raced, observed, winner, elapsed, advances,
                 headers, rateLimit, running, serial>>

-----------------------------------------------------------------------------
(* Bounds *)

\* longest whitelist / blacklist the configuration file holds
MaxPatterns == 2
\* longest pattern string the matcher is tried on
MaxPatternLen == 5
\* how many times the clock advances in one run
MaxTicks == 5
\* failure() is not called again once the tally has reached this
MaxFailures == 5
\* Date.now() when the process starts
StartTime == 1000000
\* how many times the clock advances after one withTimeout call
MaxAdvances == 3

-----------------------------------------------------------------------------
(* Strings *)

Slash == "/"
Star  == "*"
Char  == {"a", "w", "A", Star, Slash}

\* the value of a destructured array element that is not there
undefined == <<"undefined">>

\* all strings of length n over Char
RECURSIVE StringsOfLen(_)
StringsOfLen(n) ==
    IF n = 0 THEN {<<>>}
    ELSE {Append(s, c) : s \in StringsOfLen(n - 1), c \in Char}

RECURSIVE StringsUpTo(_)
StringsUpTo(n) == IF n = 0 THEN {<<>>} ELSE StringsOfLen(n) \cup StringsUpTo(n - 1)

\* String.prototype.split("/"): the pieces between the separators, in order;
\* a string with no "/" is its own single piece, and pieces may be empty
RECURSIVE split(_)
split(s) ==
    IF \A i \in 1..Len(s) : s[i] # Slash
    THEN <<s>>
    ELSE LET i == CHOOSE k \in 1..Len(s) :
                      /\ s[k] = Slash
                      /\ \A j \in 1..(k - 1) : s[j] # Slash
         IN  <<SubSeq(s, 1, i - 1)>> \o split(SubSeq(s, i + 1, Len(s)))

\* const [x, y] = arr : x
first(arr)  == IF Len(arr) >= 1 THEN arr[1] ELSE undefined
\* const [x, y] = arr : y
second(arr) == IF Len(arr) >= 2 THEN arr[2] ELSE undefined

\* !v for a string or undefined
falsy(v) == v = <<>> \/ v = undefined

\* one-segment names and the owner/name identifiers built from them
Names          == {<<"a">>, <<"w">>, <<"A">>, <<"a", "w">>}
WellFormedRepos == {o \o <<Slash>> \o n : o \in Names, n \in Names}

\* the `repo` strings a client sends: well-formed, without "/", with three
\* segments, with an empty name
RepoInputs ==
    { <<"a", Slash, "w">>, <<"w", Slash, "a">>, <<"A", Slash, "w">>,
      <<"w">>, <<"a", Slash, "w", Slash, "a">>, <<"a", Slash>> }

\* the patterns a configuration file lists: exact, org wildcard, repo wildcard
PatternPool == { <<"a", Slash, "w">>, <<"a", Slash, Star>>, <<Star, Slash, "w">> }

RECURSIVE ListsOfLen(_, _)
ListsOfLen(S, n) ==
    IF n = 0 THEN {<<>>}
    ELSE {Append(l, x) : l \in ListsOfLen(S, n - 1), x \in S}

RECURSIVE ListsUpTo(_, _)
ListsUpTo(S, n) == IF n = 0 THEN {<<>>} ELSE ListsOfLen(S, n) \cup ListsUpTo(S, n - 1)

PatternLists == ListsUpTo(PatternPool, MaxPatterns)
ShortPatternLists == {<<>>} \cup {<<p>> : p \in PatternPool}

-----------------------------------------------------------------------------
(* config.ts *)

PermissionLevel == {"read", "trigger", "cancel", "admin"}

DEFAULT_CONFIG ==
    [ permissions |->
        [ read |-> TRUE, trigger |-> FALSE, cancel |-> FALSE, admin |-> FALSE,
          whitelist_repos |-> <<>>, blacklist_repos |-> <<>> ],
      bypass_permissions |-> FALSE ]

\* A key of the parsed file is there (<<v>>) or not (<<>>).
Optional(S) == {<<>>} \cup {<<v>> : v \in S}

\* { ...defaults, ...file }[key]
spread(default, fromFile) == IF fromFile = <<>> THEN default ELSE fromFile[1]

\* what JSON.parse of the configuration file gives; no file, or a file that
\* does not parse, leaves fileConfig = {} (every key absent)
FileConfigs ==
    [ read : Optional(BOOLEAN), trigger : Optional(BOOLEAN),
      cancel : Optional(BOOLEAN), admin : Optional(BOOLEAN),
      whitelist_repos : Optional(PatternLists),
      blacklist_repos : Optional(PatternLists),
      bypass_permissions : Optional(BOOLEAN) ]

NoFile ==
    [ read |-> <<>>, trigger |-> <<>>, cancel |-> <<>>, admin |-> <<>>,
      whitelist_repos |-> <<>>, blacklist_repos |-> <<>>,
      bypass_permissions |-> <<>> ]

\* loadConfig() granting every level the file does not mention
loadConfig_grantsByDefault(bypassMode, fileConfig) ==
    [ permissions |->
        [ read    |-> spread(TRUE, fileConfig.read),
          trigger |-> spread(TRUE, fileConfig.trigger),
          cancel  |-> spread(TRUE, fileConfig.cancel),
          admin   |-> spread(TRUE, fileConfig.admin),
          whitelist_repos |->
              spread(DEFAULT_CONFIG.permissions.whitelist_repos, fileConfig.whitelist_repos),
          blacklist_repos |->
              spread(DEFAULT_CONFIG.permissions.blacklist_repos, fileConfig.blacklist_repos) ],
      bypass_permissions |-> bypassMode \/ spread(FALSE, fileConfig.bypass_permissions) ]

\* loadConfig(): bypassMode is process.argv.includes("--bypass-permissions").
\* bypass_permissions holds the truthiness of `bypassMode || file value`, the
\* only thing the checks read of it.
loadConfig(bypassMode, fileConfig) ==
    [ permissions |->
        [ read    |-> spread(DEFAULT_CONFIG.permissions.read, fileConfig.read),
          trigger |-> spread(DEFAULT_CONFIG.permissions.trigger, fileConfig.trigger),
          cancel  |-> spread(DEFAULT_CONFIG.permissions.cancel, fileConfig.cancel),
          admin   |-> spread(DEFAULT_CONFIG.permissions.admin, fileConfig.admin),
          whitelist_repos |->
              spread(DEFAULT_CONFIG.permissions.whitelist_repos, fileConfig.whitelist_repos),
          blacklist_repos |->
              spread(DEFAULT_CONFIG.permissions.blacklist_repos, fileConfig.blacklist_repos) ],
      bypass_permissions |-> bypassMode \/ spread(FALSE, fileConfig.bypass_permissions) ]

\* the two console.error lines of loadConfig that announce bypass mode
bypassWarning(bypassMode) == bypassMode

-----------------------------------------------------------------------------
(* permissions.ts: access control *)

Allow            == "allow"
PermissionDenied == "permission denied"
Blacklisted      == "blacklisted"
NotInWhitelist   == "not in whitelist"

\* checkPermission denying every call after the first direct one
checkPermission_deniesRepeat(cfg, level) ==
    IF call.done THEN PermissionDenied
    ELSE IF cfg.bypass_permissions THEN Allow
    ELSE IF cfg.permissions[level] THEN Allow
    ELSE PermissionDenied

\* checkPermission with the bypass test dropped
checkPermission_noBypass(cfg, level) ==
    IF ~cfg.permissions[level] THEN PermissionDenied ELSE Allow

\* checkPermission with admin granting every level
checkPermission_adminImplies(cfg, level) ==
    IF cfg.bypass_permissions THEN Allow
    ELSE IF ~(cfg.permissions[level] \/ cfg.permissions.admin) THEN PermissionDenied
    ELSE Allow

checkPermission(cfg, level) ==
    IF cfg.bypass_permissions THEN Allow
    ELSE IF ~cfg.permissions[level] THEN PermissionDenied
    ELSE Allow

\* the body of the loop of matchesAny, for one pattern
matchesPattern(repo, pattern) ==
    LET owner        == first(split(repo))
        repoName     == second(split(repo))
        patternOwner == first(split(pattern))
        patternRepo  == second(split(pattern))
    IN  \/ pattern = repo
        \/ patternRepo = <<Star>> /\ patternOwner = owner
        \/ patternOwner = <<Star>> /\ patternRepo = repoName

RECURSIVE matchesFrom(_, _, _)
matchesFrom(repo, patterns, i) ==
    IF i > Len(patterns) THEN FALSE
    ELSE IF matchesPattern(repo, patterns[i]) THEN TRUE
    ELSE matchesFrom(repo, patterns, i + 1)

matchesAny(repo, patterns) == matchesFrom(repo, patterns, 1)

\* checkRepoAccess with the whitelist consulted before the blacklist
checkRepoAccess_whitelistFirst(cfg, repo) ==
    LET whitelist_repos == cfg.permissions.whitelist_repos
        blacklist_repos == cfg.permissions.blacklist_repos
    IN  IF cfg.bypass_permissions THEN Allow
        ELSE IF Len(whitelist_repos) > 0 /\ matchesAny(repo, whitelist_repos) THEN Allow
        ELSE IF Len(blacklist_repos) > 0 /\ matchesAny(repo, blacklist_repos)
             THEN Blacklisted
        ELSE IF Len(whitelist_repos) = 0 THEN Allow
        ELSE NotInWhitelist

\* checkRepoAccess with an empty whitelist allowing nothing
checkRepoAccess_emptyWhitelistDenies(cfg, repo) ==
    LET whitelist_repos == cfg.permissions.whitelist_repos
        blacklist_repos == cfg.permissions.blacklist_repos
    IN  IF cfg.bypass_permissions THEN Allow
        ELSE IF Len(blacklist_repos) > 0 /\ matchesAny(repo, blacklist_repos)
             THEN Blacklisted
        ELSE IF ~matchesAny(repo, whitelist_repos) THEN NotInWhitelist
        ELSE Allow

checkRepoAccess(cfg, repo) ==
    LET whitelist_repos == cfg.permissions.whitelist_repos
        blacklist_repos == cfg.permissions.blacklist_repos
    IN  IF cfg.bypass_permissions THEN Allow
        ELSE IF Len(blacklist_repos) > 0 /\ matchesAny(repo, blacklist_repos)
             THEN Blacklisted
        ELSE IF Len(whitelist_repos) = 0 THEN Allow
        ELSE IF ~matchesAny(repo, whitelist_repos) THEN NotInWhitelist
        ELSE Allow

-----------------------------------------------------------------------------
(* Initial states *)

NoCall == [fn |-> "none", level |-> "none", repo |-> <<>>, patterns |-> <<>>,
           done |-> FALSE, result |-> "none"]

\* process start: index.ts line 23, const config = loadConfig()
InitConfig ==
    \E bypassMode \in BOOLEAN, fileConfig \in FileConfigs :
        /\ config = loadConfig(bypassMode, fileConfig)
        /\ warned = bypassWarning(bypassMode)

\* process start with no configuration file and no argument
InitDefaultConfig ==
    /\ config = loadConfig(FALSE, NoFile)
    /\ warned = bypassWarning(FALSE)

InitTool ==
    /\ pc = "idle"
    /\ tool = "none"
    /\ repoArg = <<>>
    /\ opt = FALSE
    /\ trace = <<>>

-----------------------------------------------------------------------------
(* Direct calls of the exported checks: the configuration and the arguments *)
(* are the inputs, `call` records the outcome.                              *)

CallCheckPermission ==
    /\ call = NoCall
    /\ \E level \in PermissionLevel :
        /\ call' = [NoCall EXCEPT !.fn = "checkPermission", !.level = level, !.done = TRUE,
                                  !.result = checkPermission(config, level)]
        /\ UNCHANGED <<config, warned>>
        /\ UNCHANGED toolVars
        /\ UNCHANGED breakerVars
        /\ UNCHANGED timeoutVars
        /\ UNCHANGED rateVars
        /\ UNCHANGED stepVars

CallCheckRepoAccess ==
    /\ call = NoCall
    /\ \E repo \in RepoInputs :
        /\ call' = [NoCall EXCEPT !.fn = "checkRepoAccess", !.repo = repo, !.done = TRUE,
                                  !.result = checkRepoAccess(config, repo)]
        /\ UNCHANGED <<config, warned>>
        /\ UNCHANGED toolVars
        /\ UNCHANGED breakerVars
        /\ UNCHANGED timeoutVars
        /\ UNCHANGED rateVars
        /\ UNCHANGED stepVars

\* the pattern lists the matcher is tried on: none, any one string, and the
\* lists a configuration holds
MatchLists ==
    {<<>>} \cup {<<p>> : p \in StringsUpTo(MaxPatternLen)} \cup PatternLists

\* a call of matchesAny that has not run yet
PendingMatch(repo, patterns) ==
    [NoCall EXCEPT !.fn = "matchesAny", !.repo = repo, !.patterns = patterns]

CallMatchesAny ==
    /\ call.fn = "matchesAny"
    /\ ~call.done
    /\ call' = [call EXCEPT !.done = TRUE,
                            !.result = matchesAny(call.repo, call.patterns)]
    /\ UNCHANGED <<config, warned>>
    /\ UNCHANGED toolVars
    /\ UNCHANGED breakerVars
    /\ UNCHANGED timeoutVars
    /\ UNCHANGED rateVars
    /\ UNCHANGED stepVars

-----------------------------------------------------------------------------
(* index.ts: the tool handlers *)

Tools ==
    { "gha_list_workflows", "gha_get_workflow", "gha_list_runs", "gha_get_run",
      "gha_get_run_logs", "gha_trigger_workflow", "gha_rerun_workflow",
      "gha_cancel_run", "gha_set_workflow_state", "gha_diagnose_failure" }

\* the handlers with gha_rerun_workflow asking for "read"
handlerLevel_rerunReads(t) ==
    CASE t = "gha_trigger_workflow"   -> "trigger"
      [] t = "gha_cancel_run"         -> "cancel"
      [] t = "gha_set_workflow_state" -> "admin"
      [] OTHER                        -> "read"

\* the level each handler passes to checkPermission
handlerLevel(t) ==
    CASE t = "gha_trigger_workflow"   -> "trigger"
      [] t = "gha_rerun_workflow"     -> "trigger"
      [] t = "gha_cancel_run"         -> "cancel"
      [] t = "gha_set_workflow_state" -> "admin"
      [] OTHER                        -> "read"

\* the tools whose remote requests depend on an argument or on response data:
\* workflow given (list_runs), include_jobs (get_run), failed_only (rerun),
\* enabled (set_workflow_state), isHaikuEnabled && failedJobs.length > 0
\* (diagnose_failure)
HasOption ==
    { "gha_list_runs", "gha_get_run", "gha_rerun_workflow",
      "gha_set_workflow_state", "gha_diagnose_failure" }

AnthropicCall == "messages.create"

\* the remote requests a handler makes after its checks, in order
remoteCalls(t, o) ==
    CASE t = "gha_list_workflows"   -> <<"listRepoWorkflows">>
      [] t = "gha_get_workflow"     -> <<"getWorkflow">>
      [] t = "gha_list_runs"        ->
            IF o THEN <<"listWorkflowRuns">> ELSE <<"listWorkflowRunsForRepo">>
      [] t = "gha_get_run"          ->
            IF o THEN <<"getWorkflowRun", "listJobsForWorkflowRun">>
            ELSE <<"getWorkflowRun">>
      [] t = "gha_get_run_logs"     -> <<"downloadWorkflowRunLogs">>
      [] t = "gha_trigger_workflow" -> <<"createWorkflowDispatch">>
      [] t = "gha_rerun_workflow"   ->
            IF o THEN <<"reRunWorkflowFailedJobs">> ELSE <<"reRunWorkflow">>
      [] t = "gha_cancel_run"       -> <<"cancelWorkflowRun">>
      [] t = "gha_set_workflow_state" ->
            IF o THEN <<"enableWorkflow">> ELSE <<"disableWorkflow">>
      [] t = "gha_diagnose_failure" ->
            IF o THEN <<"getWorkflowRun", "listJobsForWorkflowRun", AnthropicCall>>
            ELSE <<"getWorkflowRun", "listJobsForWorkflowRun">>

InvalidRepo == "invalid repo format"

\* parseRepo: the owner and name handed to the remote request, or the throw
parseRepo(repo) ==
    LET owner    == first(split(repo))
        repoName == second(split(repo))
    IN  IF falsy(owner) \/ falsy(repoName)
        THEN [ok |-> FALSE, owner |-> <<>>, repo |-> <<>>]
        ELSE [ok |-> TRUE, owner |-> owner, repo |-> repoName]

\* One entry of `trace`: what was done, with what, and for which repository.
Event(ev, detail, owner, name) == <<ev, detail, owner, name>>

Requests(tr) == SelectSeq(tr, LAMBDA e : e[1] = "request")

\* a client calls a tool
Invoke ==
    /\ pc = "idle"
    /\ \E t \in Tools, r \in RepoInputs, o \in BOOLEAN :
        /\ (t \notin HasOption => o = FALSE)
        /\ tool' = t
        /\ repoArg' = r
        /\ opt' = o
    /\ pc' = "checkPermission"
    /\ trace' = <<>>
    /\ UNCHANGED accessVars
    /\ UNCHANGED breakerVars
    /\ UNCHANGED timeoutVars
    /\ UNCHANGED rateVars
    /\ UNCHANGED stepVars

\* checkPermission(config, <level>);
StepCheckPermission ==
    /\ pc = "checkPermission"
    /\ LET level  == handlerLevel(tool)
           result == checkPermission(config, level)
       IN  IF result = Allow
           THEN /\ pc' = "checkRepoAccess"
                /\ trace' = Append(trace, Event("checkPermission", level, <<>>, <<>>))
           ELSE /\ pc' = "failed"
                /\ trace' = Append(trace, Event("throw", result, <<>>, <<>>))
    /\ UNCHANGED <<tool, repoArg, opt>>
    /\ UNCHANGED accessVars
    /\ UNCHANGED breakerVars
    /\ UNCHANGED timeoutVars
    /\ UNCHANGED rateVars
    /\ UNCHANGED stepVars

\* checkRepoAccess(config, repo);
StepCheckRepoAccess ==
    /\ pc = "checkRepoAccess"
    /\ LET result == checkRepoAccess(config, repoArg)
       IN  IF result = Allow
           THEN /\ pc' = "parseRepo"
                /\ trace' = Append(trace, Event("checkRepoAccess", Allow, <<>>, <<>>))
           ELSE /\ pc' = "failed"
                /\ trace' = Append(trace, Event("throw", result, <<>>, <<>>))
    /\ UNCHANGED <<tool, repoArg, opt>>
    /\ UNCHANGED accessVars
    /\ UNCHANGED breakerVars
    /\ UNCHANGED timeoutVars
    /\ UNCHANGED rateVars
    /\ UNCHANGED stepVars

\* const { owner, repo: repoName } = parseRepo(repo);
StepParseRepo ==
    /\ pc = "parseRepo"
    /\ LET parsed == parseRepo(repoArg)
       IN  IF parsed.ok
           THEN /\ pc' = "request"
                /\ trace' = Append(trace, Event("parseRepo", "ok", parsed.owner, parsed.repo))
           ELSE /\ pc' = "failed"
                /\ trace' = Append(trace, Event("throw", InvalidRepo, <<>>, <<>>))
    /\ UNCHANGED <<tool, repoArg, opt>>
    /\ UNCHANGED accessVars
    /\ UNCHANGED breakerVars
    /\ UNCHANGED timeoutVars
    /\ UNCHANGED rateVars
    /\ UNCHANGED stepVars

\* the next remote request of the handler is sent
StepRequest ==
    /\ pc = "request"
    /\ LET plan   == remoteCalls(tool, opt)
           k      == Len(Requests(trace)) + 1
           parsed == parseRepo(repoArg)
       IN  trace' = Append(trace, Event("request", plan[k], parsed.owner, parsed.repo))
    /\ pc' = "await"
    /\ UNCHANGED <<tool, repoArg, opt>>
    /\ UNCHANGED accessVars
    /\ UNCHANGED breakerVars
    /\ UNCHANGED timeoutVars
    /\ UNCHANGED rateVars
    /\ UNCHANGED stepVars

\* the awaited request settles: it resolves or it rejects (a rejection whose
\* message holds "410" is answered by gha_get_run_logs, a rejection of the
\* Anthropic request is caught in diagnoseWithHaiku)
StepSettle ==
    /\ pc = "await"
    /\ LET plan == remoteCalls(tool, opt)
           k    == Len(Requests(trace))
           api  == plan[k]
       IN  \E outcome \in {"resolved", "rejected", "rejected 410"} :
            /\ (outcome = "rejected 410" => tool = "gha_get_run_logs")
            /\ trace' = Append(trace, Event("settle", outcome, <<>>, <<>>))
            /\ pc' = CASE outcome = "resolved" ->
                            IF k < Len(plan) THEN "request" ELSE "returned"
                       [] outcome = "rejected" ->
                            IF api = AnthropicCall THEN "returned" ELSE "failed"
                       [] outcome = "rejected 410" -> "returned"
    /\ UNCHANGED <<tool, repoArg, opt>>
    /\ UNCHANGED accessVars
    /\ UNCHANGED breakerVars
    /\ UNCHANGED timeoutVars
    /\ UNCHANGED rateVars
    /\ UNCHANGED stepVars

\* the requests a handler wraps in withTimeout: every octokit request; the
\* Anthropic request is awaited as it is
wrapped(api) == api # AnthropicCall

\* withTimeout's timer rejects before the awaited request has settled
StepTimeout ==
    /\ pc = "await"
    /\ LET plan == remoteCalls(tool, opt)
           k    == Len(Requests(trace))
       IN  wrapped(plan[k])
    /\ trace' = Append(trace, Event("settle", "timeout", <<>>, <<>>))
    /\ pc' = "failed"
    /\ UNCHANGED <<tool, repoArg, opt>>
    /\ UNCHANGED accessVars
    /\ UNCHANGED breakerVars
    /\ UNCHANGED timeoutVars
    /\ UNCHANGED rateVars
    /\ UNCHANGED stepVars

\* the handler has returned or thrown and the server has answered the client;
\* the next invocation starts from scratch
Respond ==
    /\ pc \in {"returned", "failed"}
    /\ pc' = "idle"
    /\ tool' = "none"
    /\ repoArg' = <<>>
    /\ opt' = FALSE
    /\ trace' = <<>>
    /\ UNCHANGED accessVars
    /\ UNCHANGED breakerVars
    /\ UNCHANGED timeoutVars
    /\ UNCHANGED rateVars
    /\ UNCHANGED stepVars

-----------------------------------------------------------------------------
(* permissions.ts: CircuitBreaker *)

\* the constructor's defaults
threshold   == 3
resetTimeMs == 60000
cooldownMs  == 300000

\* Math.ceil(x / 1000) for an integer x
ceilSeconds(x) == -((-x) \div 1000)

Breaker == [failures |-> failures, lastFailure |-> lastFailure, isOpen |-> isOpen]

\* check() clearing the tally of a closed breaker
check_closedClearsTally(b, t) ==
    IF ~b.isOpen
    THEN [b |-> [b EXCEPT !.failures = 0], threw |-> FALSE, retryAfter |-> 0]
    ELSE IF t - b.lastFailure > cooldownMs
    THEN [b |-> [b EXCEPT !.isOpen = FALSE, !.failures = 0],
          threw |-> FALSE, retryAfter |-> 0]
    ELSE [b |-> b, threw |-> TRUE,
          retryAfter |-> ceilSeconds(cooldownMs - (t - b.lastFailure))]

\* check() closing the breaker and keeping the tally
check_keepsTally(b, t) ==
    IF ~b.isOpen
    THEN [b |-> b, threw |-> FALSE, retryAfter |-> 0]
    ELSE IF t - b.lastFailure > cooldownMs
    THEN [b |-> [b EXCEPT !.isOpen = FALSE],
          threw |-> FALSE, retryAfter |-> 0]
    ELSE [b |-> b, threw |-> TRUE,
          retryAfter |-> ceilSeconds(cooldownMs - (t - b.lastFailure))]

\* check(): the state it leaves, whether it threw, and the seconds it reports
check(b, t) ==
    IF ~b.isOpen
    THEN [b |-> b, threw |-> FALSE, retryAfter |-> 0]
    ELSE IF t - b.lastFailure > cooldownMs
    THEN [b |-> [b EXCEPT !.isOpen = FALSE, !.failures = 0],
          threw |-> FALSE, retryAfter |-> 0]
    ELSE [b |-> b, threw |-> TRUE,
          retryAfter |-> ceilSeconds(cooldownMs - (t - b.lastFailure))]

\* success() closing the breaker once the tally is empty
success_closes(b) ==
    IF b.failures > 1 THEN [b EXCEPT !.failures = @ - 1]
    ELSE [b EXCEPT !.failures = 0, !.isOpen = FALSE]

\* success() forgetting the whole tally
success_clearsTally(b) ==
    [b EXCEPT !.failures = 0]

\* success()
success(b) ==
    IF b.failures > 0 THEN [b EXCEPT !.failures = @ - 1] ELSE b

\* failure() opening one failure early
failure_opensEarly(b, t) ==
    LET kept     == IF t - b.lastFailure > resetTimeMs THEN 0 ELSE b.failures
        counted  == kept + 1
    IN  [failures |-> counted,
         lastFailure |-> t,
         isOpen |-> IF counted >= threshold - 1 THEN TRUE ELSE b.isOpen]

\* failure() discarding the tally already at the end of the reset window
failure_windowInclusive(b, t) ==
    LET kept     == IF t - b.lastFailure >= resetTimeMs THEN 0 ELSE b.failures
        counted  == kept + 1
    IN  [failures |-> counted,
         lastFailure |-> t,
         isOpen |-> IF counted >= threshold THEN TRUE ELSE b.isOpen]

\* failure() on an open breaker leaving the time of the last failure alone
failure_openKeepsTime(b, t) ==
    LET kept     == IF t - b.lastFailure > resetTimeMs THEN 0 ELSE b.failures
        counted  == kept + 1
    IN  [failures |-> counted,
         lastFailure |-> IF b.isOpen THEN b.lastFailure ELSE t,
         isOpen |-> IF counted >= threshold THEN TRUE ELSE b.isOpen]

\* failure() never discarding the old tally
failure_keepsTally(b, t) ==
    LET kept     == b.failures
        counted  == kept + 1
    IN  [failures |-> counted,
         lastFailure |-> t,
         isOpen |-> IF counted >= threshold THEN TRUE ELSE b.isOpen]

\* failure()
failure(b, t) ==
    LET kept     == IF t - b.lastFailure > resetTimeMs THEN 0 ELSE b.failures
        counted  == kept + 1
    IN  [failures |-> counted,
         lastFailure |-> t,
         isOpen |-> IF counted >= threshold THEN TRUE ELSE b.isOpen]

NoBreakerCall == [op |-> "none", threw |-> FALSE, retryAfter |-> 0]

InitBreaker ==
    /\ failures = 0
    /\ lastFailure = 0
    /\ isOpen = FALSE
    /\ now = StartTime
    /\ ticks = 0
    /\ brCall = NoBreakerCall
    /\ streak = 0

\* the delays between two calls: the next millisecond, a full reset window,
\* a full cooldown
Delays == {1, resetTimeMs, cooldownMs}

\* time passes; nothing of the breaker runs
Tick ==
    /\ ticks < MaxTicks
    /\ \E d \in Delays : now' = now + d
    /\ ticks' = ticks + 1
    /\ UNCHANGED <<failures, lastFailure, isOpen, brCall, streak>>
    /\ UNCHANGED accessVars
    /\ UNCHANGED toolVars
    /\ UNCHANGED timeoutVars
    /\ UNCHANGED rateVars
    /\ UNCHANGED stepVars

Check ==
    /\ LET r == check(Breaker, now)
       IN  /\ failures' = r.b.failures
           /\ lastFailure' = r.b.lastFailure
           /\ isOpen' = r.b.isOpen
           /\ brCall' = [op |-> "check", threw |-> r.threw, retryAfter |-> r.retryAfter]
    /\ streak' = IF isOpen /\ ~isOpen' THEN 0 ELSE streak
    /\ UNCHANGED <<now, ticks>>
    /\ UNCHANGED accessVars
    /\ UNCHANGED toolVars
    /\ UNCHANGED timeoutVars
    /\ UNCHANGED rateVars
    /\ UNCHANGED stepVars

Success ==
    /\ LET b == success(Breaker)
       IN  /\ failures' = b.failures
           /\ lastFailure' = b.lastFailure
           /\ isOpen' = b.isOpen
    /\ brCall' = [op |-> "success", threw |-> FALSE, retryAfter |-> 0]
    /\ streak' = 0
    /\ UNCHANGED <<now, ticks>>
    /\ UNCHANGED accessVars
    /\ UNCHANGED toolVars
    /\ UNCHANGED timeoutVars
    /\ UNCHANGED rateVars
    /\ UNCHANGED stepVars

Failure ==
    /\ failures < MaxFailures
    /\ LET b == failure(Breaker, now)
       IN  /\ failures' = b.failures
           /\ lastFailure' = b.lastFailure
           /\ isOpen' = b.isOpen
    /\ brCall' = [op |-> "failure", threw |-> FALSE, retryAfter |-> 0]
    /\ streak' = IF streak = 0
                 THEN (IF ~isOpen /\ failures = 0 THEN 1 ELSE 0)
                 ELSE (IF now - lastFailure <= resetTimeMs THEN streak + 1 ELSE 0)
    /\ UNCHANGED <<now, ticks>>
    /\ UNCHANGED accessVars
    /\ UNCHANGED toolVars
    /\ UNCHANGED timeoutVars
    /\ UNCHANGED rateVars
    /\ UNCHANGED stepVars

-----------------------------------------------------------------------------
(* permissions.ts: withTimeout *)

\* config.ts, DEFAULT_CONFIG.neverhang
api_timeout == 30000
log_timeout == 60000

\* the bounds withTimeout is called with
Timeouts == {api_timeout, log_timeout}

\* the caller's message: none, the empty string, a text
Messages == {undefined, <<>>, <<"w", "a">>}

\* a promise: pending, fulfilled with a value, or rejected with an error that
\* has a name (the kind of error) and a message
Pending == [state |-> "pending", value |-> "", name |-> "", message |-> <<>>]
Fulfilled(v) == [state |-> "fulfilled", value |-> v, name |-> "", message |-> <<>>]
Rejected(name, msg) == [state |-> "rejected", value |-> "", name |-> name, message |-> msg]

\* `Operation timed out after ${ms}ms`
timedOutAfter(n) == <<"Operation timed out after ", ToString(n), "ms">>

\* new Error(message || `Operation timed out after ${ms}ms`)
timeoutError(n, msg) ==
    Rejected("Error", IF falsy(msg) THEN timedOutAfter(n) ELSE msg)

\* what the wrapped promise (any Promise<T>) can settle with: a value, the
\* HTTP client's error, a plain Error, the Error of a withTimeout inside it
OperationOutcomes(n) ==
    { Fulfilled("response"),
      Rejected("HttpError", <<"A">>),
      Rejected("Error", <<"w", "a">>),
      Rejected("Error", timedOutAfter(n)) }

\* Promise.race taking every settlement of its inputs
race_lastWins(p, outcome) ==
    [promise |-> outcome, settled |-> TRUE]

\* Promise.race([promise, timeout]) when one of its inputs settles: the
\* returned promise takes the settlement if it is still pending, and its
\* awaiting caller is then handed it
race(p, outcome) ==
    [promise |-> IF p.state = "pending" THEN outcome ELSE p,
     settled |-> p.state = "pending"]

\* the timer's callback aborting the wrapped operation
timerCallback_aborts(operation, n, msg) ==
    [promise   |-> IF operation = Pending THEN Rejected("AbortError", <<>>)
                   ELSE operation,
     rejection |-> timeoutError(n, msg)]

\* the timer's callback: it rejects the timeout promise and has no reference
\* to the wrapped operation, whose promise it leaves as it is
timerCallback(operation, n, msg) ==
    [promise   |-> operation,
     rejection |-> timeoutError(n, msg)]

InitTimeout ==
    /\ ms = 0
    /\ message = undefined
    /\ promise = Pending
    /\ timer = "unset"
    /\ raced = Pending
    /\ observed = <<>>
    /\ winner = "none"
    /\ elapsed = 0
    /\ advances = 0

\* withTimeout(promise, ms, message) is called: setTimeout(..., ms), then
\* Promise.race([promise, timeout]) is returned to the awaiting caller
CallWithTimeout ==
    /\ timer = "unset"
    /\ \E n \in Timeouts, msg \in Messages :
        /\ ms' = n
        /\ message' = msg
    /\ timer' = "pending"
    /\ UNCHANGED <<promise, raced, observed, winner, elapsed, advances>>
    /\ UNCHANGED accessVars
    /\ UNCHANGED toolVars
    /\ UNCHANGED breakerVars
    /\ UNCHANGED rateVars
    /\ UNCHANGED stepVars

\* the wrapped operation settles
OperationSettles ==
    /\ timer # "unset"
    /\ promise = Pending
    /\ \E outcome \in OperationOutcomes(ms) :
        LET r == race(raced, outcome)
        IN  /\ promise' = outcome
            /\ raced' = r.promise
            /\ observed' = IF r.settled THEN Append(observed, outcome) ELSE observed
    /\ winner' = IF winner = "none" THEN "operation" ELSE winner
    /\ UNCHANGED <<ms, message, timer, elapsed, advances>>
    /\ UNCHANGED accessVars
    /\ UNCHANGED toolVars
    /\ UNCHANGED breakerVars
    /\ UNCHANGED rateVars
    /\ UNCHANGED stepVars

\* the timer's callback runs, ms or more after the call: clearTimeout(id) on
\* the timer that has just fired, then reject(new Error(...))
TimerFires ==
    /\ timer = "pending"
    /\ elapsed >= ms
    /\ timer' = "fired"
    /\ LET cb == timerCallback(promise, ms, message)
           r  == race(raced, cb.rejection)
       IN  /\ promise' = cb.promise
           /\ raced' = r.promise
           /\ observed' = IF r.settled THEN Append(observed, cb.rejection) ELSE observed
    /\ winner' = IF winner = "none" THEN "timer" ELSE winner
    /\ UNCHANGED <<ms, message, elapsed, advances>>
    /\ UNCHANGED accessVars
    /\ UNCHANGED toolVars
    /\ UNCHANGED breakerVars
    /\ UNCHANGED rateVars
    /\ UNCHANGED stepVars

\* time passes after the call: a millisecond, or a whole api_timeout
Advance ==
    /\ timer # "unset"
    /\ advances < MaxAdvances
    /\ \E d \in {1, api_timeout} : elapsed' = elapsed + d
    /\ advances' = advances + 1
    /\ UNCHANGED <<ms, message, promise, timer, raced, observed, winner>>
    /\ UNCHANGED accessVars
    /\ UNCHANGED toolVars
    /\ UNCHANGED breakerVars
    /\ UNCHANGED rateVars
    /\ UNCHANGED stepVars

-----------------------------------------------------------------------------
(* permissions.ts: parseRateLimitHeaders *)

Digit == {"0", "1", "2", "3", "4", "5", "6", "7", "8", "9"}

digitValue(c) ==
    CASE c = "0" -> 0 [] c = "1" -> 1 [] c = "2" -> 2 [] c = "3" -> 3
      [] c = "4" -> 4 [] c = "5" -> 5 [] c = "6" -> 6 [] c = "7" -> 7
      [] c = "8" -> 8 [] c = "9" -> 9

digitChar(d) ==
    CASE d = 0 -> "0" [] d = 1 -> "1" [] d = 2 -> "2" [] d = 3 -> "3"
      [] d = 4 -> "4" [] d = 5 -> "5" [] d = 6 -> "6" [] d = 7 -> "7"
      [] d = 8 -> "8" [] d = 9 -> "9"

\* a number, or NaN
Num(n) == [nan |-> FALSE, n |-> n]
NaN    == [nan |-> TRUE, n |-> 0]

\* the digits at the front of s, read from the left: how many there are and
\* the number they spell after acc
RECURSIVE leadingDigits(_, _, _)
leadingDigits(s, acc, count) ==
    IF s = <<>> \/ Head(s) \notin Digit
    THEN [n |-> acc, count |-> count]
    ELSE leadingDigits(Tail(s), acc * 10 + digitValue(Head(s)), count + 1)

RECURSIVE skipSpaces(_)
skipSpaces(s) == IF s # <<>> /\ Head(s) = " " THEN skipSpaces(Tail(s)) ELSE s

\* parseInt(s, 10): blanks, a sign, then the longest run of digits; NaN when
\* there is no digit there
parseInt(s) ==
    LET t      == skipSpaces(s)
        signed == t # <<>> /\ Head(t) \in {"-", "+"}
        body   == IF signed THEN Tail(t) ELSE t
        d      == leadingDigits(body, 0, 0)
    IN  IF d.count = 0 THEN NaN
        ELSE IF signed /\ Head(t) = "-" THEN Num(0 - d.n) ELSE Num(d.n)

\* the decimal numeral of a natural number, as a header carries it
RECURSIVE numeral(_)
numeral(n) ==
    IF n < 10 THEN <<digitChar(n)>>
    ELSE Append(numeral(n \div 10), digitChar(n % 10))

HeaderNames == {"x-ratelimit-remaining", "x-ratelimit-limit", "x-ratelimit-reset"}

\* the integers a header is tried with
HeaderIntegers == {0, 7, 10, 4892, 5000}

\* a header is absent, empty, the numeral of an integer, or some other text
HeaderValues ==
    {undefined, <<>>} \cup {numeral(n) : n \in HeaderIntegers}
        \cup {<<"0", "7">>, <<"-", "1">>, <<" ", "4", "2">>, <<"1", "a">>, <<"a">>}

NoHeaders == [h \in HeaderNames |-> undefined]

NotParsed == [called |-> FALSE, isNull |-> FALSE,
              remaining |-> NaN, limit |-> NaN, reset_at |-> NaN]

null == [NotParsed EXCEPT !.called = TRUE, !.isNull = TRUE]

\* new Date(x * 1000): the time value in milliseconds, NaN for an invalid date
toDate(x) == IF x.nan THEN NaN ELSE Num(x.n * 1000)

\* parseRateLimitHeaders putting 0 where a header is missing
parseRateLimitHeaders_zeroFilled(hs) ==
    LET orZero(v) == IF falsy(v) THEN <<"0">> ELSE v
    IN  [called |-> TRUE, isNull |-> FALSE,
         remaining |-> parseInt(orZero(hs["x-ratelimit-remaining"])),
         limit     |-> parseInt(orZero(hs["x-ratelimit-limit"])),
         reset_at  |-> toDate(parseInt(orZero(hs["x-ratelimit-reset"])))]

\* parseRateLimitHeaders(headers)
parseRateLimitHeaders(hs) ==
    LET remaining == hs["x-ratelimit-remaining"]
        limit     == hs["x-ratelimit-limit"]
        reset     == hs["x-ratelimit-reset"]
    IN  IF falsy(remaining) \/ falsy(limit) \/ falsy(reset)
        THEN null
        ELSE [called |-> TRUE, isNull |-> FALSE,
              remaining |-> parseInt(remaining),
              limit     |-> parseInt(limit),
              reset_at  |-> toDate(parseInt(reset))]

InitRateLimit ==
    /\ headers = NoHeaders
    /\ rateLimit = NotParsed

CallParseRateLimitHeaders ==
    /\ ~rateLimit.called
    /\ rateLimit' = parseRateLimitHeaders(headers)
    /\ UNCHANGED headers
    /\ UNCHANGED accessVars
    /\ UNCHANGED toolVars
    /\ UNCHANGED breakerVars
    /\ UNCHANGED timeoutVars
    /\ UNCHANGED stepVars

-----------------------------------------------------------------------------
(* permissions.ts: the methods of CircuitBreaker, statement by statement *)

\* the tool invocations that share the breaker
Callers == {1, 2}

NotRunning == [op |-> "none", at |-> 0, t |-> 0]

\* a method starting whatever else is running
mayStart_anyTime(r) == TRUE

\* check(), success() and failure() are synchronous (no await in them): a
\* call starts only when no other call is inside a method
mayStart(r) == \A c \in Callers : r[c] = NotRunning

\* the statement at m.at of method m.op, run on breaker b at time clock: the
\* breaker it leaves, where the method is then, and whether it has ended
statement(b, m, clock) ==
    CASE m.op = "check" /\ m.at = 1 ->        \* if (!this.isOpen) return;
            IF ~b.isOpen
            THEN [b |-> b, m |-> m, done |-> TRUE]
            ELSE [b |-> b, m |-> [m EXCEPT !.at = 2], done |-> FALSE]
      [] m.op = "check" /\ m.at = 2 ->        \* const now; if (now - ... > cooldownMs)
            IF clock - b.lastFailure > cooldownMs
            THEN [b |-> b, m |-> [m EXCEPT !.at = 3, !.t = clock], done |-> FALSE]
            ELSE [b |-> b, m |-> [m EXCEPT !.t = clock], done |-> TRUE]
      [] m.op = "check" /\ m.at = 3 ->        \* this.isOpen = false;
            [b |-> [b EXCEPT !.isOpen = FALSE], m |-> [m EXCEPT !.at = 4], done |-> FALSE]
      [] m.op = "check" /\ m.at = 4 ->        \* this.failures = 0; return;
            [b |-> [b EXCEPT !.failures = 0], m |-> m, done |-> TRUE]
      [] m.op = "success" /\ m.at = 1 ->      \* if (this.failures > 0)
            IF b.failures > 0
            THEN [b |-> b, m |-> [m EXCEPT !.at = 2], done |-> FALSE]
            ELSE [b |-> b, m |-> m, done |-> TRUE]
      [] m.op = "success" /\ m.at = 2 ->      \* this.failures--;
            [b |-> [b EXCEPT !.failures = @ - 1], m |-> m, done |-> TRUE]
      [] m.op = "failure" /\ m.at = 1 ->      \* const now; if (now - ... > resetTimeMs)
            [b |-> b,
             m |-> [m EXCEPT !.t = clock,
                             !.at = IF clock - b.lastFailure > resetTimeMs THEN 2 ELSE 3],
             done |-> FALSE]
      [] m.op = "failure" /\ m.at = 2 ->      \* this.failures = 0;
            [b |-> [b EXCEPT !.failures = 0], m |-> [m EXCEPT !.at = 3], done |-> FALSE]
      [] m.op = "failure" /\ m.at = 3 ->      \* this.failures++;
            [b |-> [b EXCEPT !.failures = @ + 1], m |-> [m EXCEPT !.at = 4], done |-> FALSE]
      [] m.op = "failure" /\ m.at = 4 ->      \* this.lastFailure = now;
            [b |-> [b EXCEPT !.lastFailure = m.t], m |-> [m EXCEPT !.at = 5], done |-> FALSE]
      [] m.op = "failure" /\ m.at = 5 ->      \* if (this.failures >= this.threshold)
            IF b.failures >= threshold
            THEN [b |-> b, m |-> [m EXCEPT !.at = 6], done |-> FALSE]
            ELSE [b |-> b, m |-> m, done |-> TRUE]
      [] m.op = "failure" /\ m.at = 6 ->      \* this.isOpen = true;
            [b |-> [b EXCEPT !.isOpen = TRUE], m |-> m, done |-> TRUE]

\* the whole method m.op run on breaker b in one piece, at the time the call
\* read the clock
whole(b, m, clock) ==
    CASE m.op = "check"   -> check(b, IF m.at = 1 THEN clock ELSE m.t).b
      [] m.op = "success" -> success(b)
      [] m.op = "failure" -> failure(b, m.t)

InitSteps ==
    /\ running = [c \in Callers |-> NotRunning]
    /\ serial = [failures |-> 0, lastFailure |-> 0, isOpen |-> FALSE]

\* a tool invocation calls a method of the breaker
Begin ==
    /\ \E c \in Callers, op \in {"check", "success", "failure"} :
        /\ running[c] = NotRunning
        /\ mayStart(running)
        /\ (op = "failure" => failures < MaxFailures)
        /\ running' = [running EXCEPT ![c] = [op |-> op, at |-> 1, t |-> 0]]
    /\ UNCHANGED serial
    /\ UNCHANGED accessVars
    /\ UNCHANGED toolVars
    /\ UNCHANGED breakerVars
    /\ UNCHANGED timeoutVars
    /\ UNCHANGED rateVars

\* the next statement of a method that is running
Statement ==
    /\ \E c \in Callers :
        /\ running[c] # NotRunning
        /\ LET r == statement(Breaker, running[c], now)
           IN  /\ failures' = r.b.failures
               /\ lastFailure' = r.b.lastFailure
               /\ isOpen' = r.b.isOpen
               /\ running' = [running EXCEPT ![c] = IF r.done THEN NotRunning ELSE r.m]
               /\ serial' = IF r.done THEN whole(serial, r.m, now) ELSE serial
    /\ UNCHANGED <<now, ticks, brCall, streak>>
    /\ UNCHANGED accessVars
    /\ UNCHANGED toolVars
    /\ UNCHANGED timeoutVars
    /\ UNCHANGED rateVars

-----------------------------------------------------------------------------
(* Specifications *)

\* The parts share no state: the checks and the handlers read `config` and
\* never write it, and no handler calls the CircuitBreaker or
\* parseRateLimitHeaders.  Each part is checked with the other parts at rest
\* in their initial state.

Init == InitConfig /\ call = NoCall /\ InitTool /\ InitBreaker /\ InitTimeout /\ InitRateLimit /\ InitSteps

Next ==
    \/ CallCheckPermission
    \/ CallCheckRepoAccess
    \/ Invoke
    \/ StepCheckPermission
    \/ StepCheckRepoAccess
    \/ StepParseRepo
    \/ StepRequest
    \/ StepSettle
    \/ StepTimeout
    \/ Respond
    \/ Tick
    \/ Check
    \/ Success
    \/ Failure
    \/ CallWithTimeout
    \/ OperationSettles
    \/ TimerFires
    \/ Advance
    \/ CallParseRateLimitHeaders
    \/ Begin
    \/ Statement

Spec == Init /\ [][Next]_vars

\* the exported checks, called with every configuration loadConfig can return
NextAccess == CallCheckPermission \/ CallCheckRepoAccess
SpecAccess == Init /\ [][NextAccess]_vars

\* the matcher, under the default configuration
InitMatch ==
    /\ InitDefaultConfig
    /\ \E repo \in WellFormedRepos, patterns \in MatchLists :
            call = PendingMatch(repo, patterns)
    /\ InitTool
    /\ InitBreaker
    /\ InitTimeout
    /\ InitRateLimit
    /\ InitSteps
SpecMatch == InitMatch /\ [][CallMatchesAny]_vars

\* the tool handlers, one invocation after another
NextTools ==
    \/ Invoke
    \/ StepCheckPermission
    \/ StepCheckRepoAccess
    \/ StepParseRepo
    \/ StepRequest
    \/ StepSettle
    \/ StepTimeout
    \/ Respond
\* the handlers are run under every setting of the four flags and the bypass
\* flag, with lists of at most one pattern
InitTools ==
    /\ \E bypassMode \in BOOLEAN, fileConfig \in FileConfigs :
        /\ fileConfig.whitelist_repos \in Optional(ShortPatternLists)
        /\ fileConfig.blacklist_repos \in Optional(ShortPatternLists)
        /\ config = loadConfig(bypassMode, fileConfig)
        /\ warned = bypassWarning(bypassMode)
    /\ call = NoCall
    /\ InitTool
    /\ InitBreaker
    /\ InitTimeout
    /\ InitRateLimit
    /\ InitSteps
SpecTools == InitTools /\ [][NextTools]_vars

\* one CircuitBreaker instance and the clock
NextBreaker == Tick \/ Check \/ Success \/ Failure
InitAtRest ==
    InitDefaultConfig /\ call = NoCall /\ InitTool /\ InitBreaker /\ InitTimeout /\ InitRateLimit /\ InitSteps
SpecBreaker == InitAtRest /\ [][NextBreaker]_vars

\* one CircuitBreaker instance called by overlapping tool invocations, its
\* methods run statement by statement, and the clock
NextSteps == Tick \/ Begin \/ Statement
SpecSteps == InitAtRest /\ [][NextSteps]_vars

\* one withTimeout call, the operation it wraps, its timer and the clock
NextTimeout == CallWithTimeout \/ OperationSettles \/ TimerFires \/ Advance
SpecTimeout == InitAtRest /\ [][NextTimeout]_vars

\* the exported checks and the handlers, under the configuration loaded with
\* no file and no argument
NextDefaults == NextAccess \/ NextTools
SpecDefaults == InitAtRest /\ [][NextDefaults]_vars

\* the exported checks and the handlers, under every setting of the four
\* flags and of --bypass-permissions, with and without a whitelist and a
\* blacklist
InitChecks ==
    /\ \E bypassMode \in BOOLEAN, fileConfig \in FileConfigs :
        /\ fileConfig.whitelist_repos \in {<<>>, << << <<"a", Slash, Star>> >> >>}
        /\ fileConfig.blacklist_repos \in {<<>>, << << <<"a", Slash, "w">> >> >>}
        /\ fileConfig.bypass_permissions = <<>>
        /\ config = loadConfig(bypassMode, fileConfig)
        /\ warned = bypassWarning(bypassMode)
    /\ call = NoCall
    /\ InitTool
    /\ InitBreaker
    /\ InitTimeout
    /\ InitRateLimit
    /\ InitSteps
SpecChecks == InitChecks /\ [][NextDefaults]_vars

\* parseRateLimitHeaders, called once with every combination of header values
InitHeaders ==
    /\ InitDefaultConfig
    /\ call = NoCall
    /\ InitTool
    /\ InitBreaker
    /\ InitTimeout
    /\ headers \in [HeaderNames -> HeaderValues]
    /\ rateLimit = NotParsed
    /\ InitSteps
SpecRateLimit == InitHeaders /\ [][CallParseRateLimitHeaders]_vars

\* the handlers under the default configuration, with the event loop running
\* every step of the process that is ready (the handler's own code, a timer
\* that has been set, the answer to the client); when a remote service
\* answers, and whether it ever does, is up to that service
ToolsFairness ==
    /\ WF_vars(StepCheckPermission)
    /\ WF_vars(StepCheckRepoAccess)
    /\ WF_vars(StepParseRepo)
    /\ WF_vars(StepRequest)
    /\ WF_vars(StepTimeout)
    /\ WF_vars(Respond)
SpecToolsLive == InitAtRest /\ [][NextTools]_vars /\ ToolsFairness

-----------------------------------------------------------------------------
(* Properties of the access-control engine *)

\* some pattern of the list matches the resource
SomePatternMatches(repo, patterns) ==
    \E i \in 1..Len(patterns) : matchesPattern(repo, patterns[i])

RepoAccessCalled == call.done /\ call.fn = "checkRepoAccess"
PermissionCalled == call.done /\ call.fn = "checkPermission"

\* C1: with the bypass flag unset, checkRepoAccess denies ("blacklisted")
\* every resource that some blacklist pattern matches, whatever the whitelist
\* holds, also when a whitelist pattern matches the resource too.
C1_BlacklistAlwaysDenies ==
    ( /\ RepoAccessCalled
      /\ ~config.bypass_permissions
      /\ SomePatternMatches(call.repo, config.permissions.blacklist_repos) )
    => call.result = Blacklisted

C1_Witness ==
    /\ RepoAccessCalled
    /\ ~config.bypass_permissions
    /\ SomePatternMatches(call.repo, config.permissions.blacklist_repos)
    /\ SomePatternMatches(call.repo, config.permissions.whitelist_repos)
    /\ call.result = Blacklisted

\* C2: with the bypass flag set, checkPermission allows every level and
\* checkRepoAccess allows every resource, whatever the four flags and the two
\* lists hold.
C2_BypassAllowsAll ==
    ( /\ config.bypass_permissions
      /\ (PermissionCalled \/ RepoAccessCalled) )
    => call.result = Allow

C2_Witness ==
    /\ config.bypass_permissions
    /\ RepoAccessCalled
    /\ SomePatternMatches(call.repo, config.permissions.blacklist_repos)
    /\ ~SomePatternMatches(call.repo, config.permissions.whitelist_repos)
    /\ Len(config.permissions.whitelist_repos) > 0
    /\ \A l \in PermissionLevel : ~config.permissions[l]
    /\ call.result = Allow

\* C3: with the bypass flag unset, checkPermission(level) allows exactly when
\* the flag named by level is true, whatever the other three flags are.
C3_PermissionIffFlag ==
    ( /\ PermissionCalled
      /\ ~config.bypass_permissions )
    => /\ call.result \in {Allow, PermissionDenied}
       /\ (call.result = Allow) <=> (config.permissions[call.level] = TRUE)

C3_Witness ==
    /\ PermissionCalled
    /\ ~config.bypass_permissions
    /\ call.level = "trigger"
    /\ config.permissions.admin
    /\ ~config.permissions.trigger
    /\ call.result = PermissionDenied

\* C4: with the bypass flag unset and a resource no blacklist pattern matches,
\* checkRepoAccess allows exactly when the whitelist is empty or some whitelist
\* pattern matches the resource, and denies with "not in whitelist" otherwise.
C4_WhitelistDecides ==
    ( /\ RepoAccessCalled
      /\ ~config.bypass_permissions
      /\ ~SomePatternMatches(call.repo, config.permissions.blacklist_repos) )
    => /\ call.result \in {Allow, NotInWhitelist}
       /\ (call.result = Allow) <=>
            \/ Len(config.permissions.whitelist_repos) = 0
            \/ SomePatternMatches(call.repo, config.permissions.whitelist_repos)

C4_Witness ==
    /\ RepoAccessCalled
    /\ ~config.bypass_permissions
    /\ call.repo \in WellFormedRepos
    /\ config.permissions.whitelist_repos = <<>>
    /\ config.permissions.blacklist_repos = <<>>
    /\ call.result = Allow

-----------------------------------------------------------------------------
(* Properties of the tool handlers *)

\* the level the documentation requires of each tool
RequiredLevel(t) ==
    IF t \in {"gha_trigger_workflow", "gha_rerun_workflow"} THEN "trigger"
    ELSE IF t = "gha_cancel_run" THEN "cancel"
    ELSE IF t = "gha_set_workflow_state" THEN "admin"
    ELSE "read"

Thrown(tr, error) == \E i \in 1..Len(tr) : tr[i][1] = "throw" /\ tr[i][2] = error

\* C5: a handler sends a remote request only after checkPermission, called
\* with the level its tool requires, and checkRepoAccess have both allowed the
\* invocation; an invocation one of them denies sends no remote request.
C5_ChecksBeforeRemoteCall ==
    \A i \in 1..Len(trace) :
        trace[i][1] = "request" =>
            /\ \E j \in 1..(i - 1) :
                    /\ trace[j][1] = "checkPermission"
                    /\ trace[j][2] = RequiredLevel(tool)
            /\ \E k \in 1..(i - 1) : trace[k][1] = "checkRepoAccess"
            /\ checkPermission(config, RequiredLevel(tool)) = Allow
            /\ checkRepoAccess(config, repoArg) = Allow

C5_Witness ==
    /\ tool = "gha_rerun_workflow"
    /\ ~config.bypass_permissions
    /\ config.permissions.trigger
    /\ ~config.permissions.read
    /\ Len(config.permissions.whitelist_repos) > 0
    /\ Len(Requests(trace)) = 1

NoSlash(s) == \A i \in 1..Len(s) : s[i] # Slash

\* C6: an identifier with no "/" is rejected as malformed before any pattern
\* is compared with it: it is never reported as blacklisted or as not in the
\* whitelist, and no remote request is sent for it.
C6_MalformedBeforePatterns ==
    (pc # "idle" /\ NoSlash(repoArg)) =>
        /\ ~Thrown(trace, Blacklisted)
        /\ ~Thrown(trace, NotInWhitelist)
        /\ Requests(trace) = <<>>

-----------------------------------------------------------------------------
(* Properties of the pattern matcher *)

\* the three pattern shapes of the documentation, for a resource owner/name
DocumentedMatch(repo, pattern) ==
    LET owner == split(repo)[1]
        name  == split(repo)[2]
    IN  \/ pattern = repo
        \/ pattern = owner \o <<Slash, Star>>
        \/ pattern = <<Star, Slash>> \o name

\* C7: a pattern matches a resource owner/name exactly when it equals it, or
\* is owner/* with that owner, or is */name with that name; every other
\* pattern matches no resource, and an empty list matches nothing.
C7_OnlyDocumentedShapesMatch ==
    (call.done /\ call.fn = "matchesAny") =>
        (call.result <=>
            \E i \in 1..Len(call.patterns) : DocumentedMatch(call.repo, call.patterns[i]))

\* the same, for patterns of at most two segments
TwoSegmentPatternsMatchAsDocumented ==
    ( /\ call.done /\ call.fn = "matchesAny"
      /\ \A i \in 1..Len(call.patterns) : Len(split(call.patterns[i])) <= 2 )
    => (call.result <=>
            \E i \in 1..Len(call.patterns) : DocumentedMatch(call.repo, call.patterns[i]))

-----------------------------------------------------------------------------
(* Properties of the CircuitBreaker *)

\* C8, as stated: in every reachable state an open breaker has
\* failures >= threshold and less than a cooldown has passed since the last
\* failure.
C8_OpenImpliesThresholdAndCooldown ==
    isOpen => (failures >= threshold /\ now - lastFailure < cooldownMs)

\* C8, amended: the breaker goes from closed to open only in a step that
\* leaves failures >= threshold and less than a cooldown since the last
\* failure (it is failure() that opens it, at lastFailure = now), and no
\* check() returns normally while leaving the breaker open.
C8_OpensAtThreshold ==
    /\ [][ (~isOpen /\ isOpen') =>
                /\ failures' >= threshold
                /\ now' - lastFailure' < cooldownMs
                /\ lastFailure' = now'
                /\ brCall'.op = "failure" ]_vars
    /\ [][ (Check /\ ~brCall'.threw) => ~isOpen' ]_vars

C8_Witness ==
    /\ isOpen
    /\ brCall.op = "failure"
    /\ failures = threshold
    /\ lastFailure = now
    /\ ticks > 0

\* C9: from a closed breaker with failures = 0, threshold failure() calls in
\* a row, none later than resetTimeMs after the one before and with no
\* success() between them, leave the breaker open, and a check() called right
\* after them (no time has passed) throws the circuit-open error.
C9_ThresholdFailuresOpen ==
    /\ [](streak >= threshold => isOpen)
    /\ [][ (Check /\ streak >= threshold /\ now = lastFailure) =>
                (brCall'.threw /\ isOpen') ]_vars

C9_Witness ==
    /\ streak = threshold
    /\ brCall.op = "check"
    /\ brCall.threw
    /\ now = lastFailure
    /\ ticks >= threshold - 1
    /\ isOpen

\* C10: check() on an open breaker passes and leaves it closed with
\* failures = 0 when now - lastFailure >= cooldownMs, equality included, and
\* throws the circuit-open error when now - lastFailure < cooldownMs.
C10_CheckAfterCooldown ==
    [][ (Check /\ isOpen) =>
            IF now - lastFailure >= cooldownMs
            THEN ~brCall'.threw /\ ~isOpen' /\ failures' = 0
            ELSE brCall'.threw /\ isOpen' ]_vars

\* C11: success() leaves failures at max(failures - 1, 0) and changes nothing
\* else: lastFailure and isOpen keep their values, so success() on an open
\* breaker leaves it open.
C11_SuccessOnlyDecrements ==
    [][ Success =>
            /\ failures' = (IF failures - 1 > 0 THEN failures - 1 ELSE 0)
            /\ lastFailure' = lastFailure
            /\ isOpen' = isOpen
            /\ now' = now ]_vars

C11_Witness ==
    /\ brCall.op = "success"
    /\ isOpen
    /\ failures = threshold - 2
    /\ now - lastFailure < cooldownMs

\* C12: failure() called more than resetTimeMs after the previous failure
\* leaves failures = 1; called within the window it leaves failures one
\* higher; in both cases lastFailure becomes now, and the breaker is open
\* afterwards exactly when the new failures >= threshold or it was open before.
C12_FailureCountsInWindow ==
    [][ Failure =>
            /\ failures' = (IF now - lastFailure > resetTimeMs THEN 1 ELSE failures + 1)
            /\ lastFailure' = now
            /\ isOpen' <=> (failures' >= threshold \/ isOpen) ]_vars

C12_Witness ==
    /\ brCall.op = "failure"
    /\ failures = 1
    /\ lastFailure = now
    /\ isOpen
    /\ ticks > 0

-----------------------------------------------------------------------------
(* The handlers and the CircuitBreaker *)

\* C13: while a handler waits on a remote request the last operation of the
\* breaker is a check() that passed, and once a handler that sent a request
\* has returned or failed the last operation of the breaker is the success()
\* or failure() that reports the outcome.
C13_BreakerAroundRemoteCalls ==
    /\ (pc = "await" => (brCall.op = "check" /\ ~brCall.threw))
    /\ ((pc \in {"returned", "failed"} /\ Requests(trace) # <<>>)
            => brCall.op \in {"success", "failure"})

-----------------------------------------------------------------------------
(* Properties of withTimeout *)

\* C14: the caller of withTimeout is handed at most one settlement, and it is
\* the settlement of whichever of the operation and the timer settled first;
\* what the other one does later neither replaces it nor adds a second one.
C14_ExactlyOneOutcome ==
    /\ Len(observed) <= 1
    /\ (winner = "none" => observed = <<>>)
    /\ (winner = "operation" => observed = <<promise>>)
    /\ (winner = "timer" => observed = <<timeoutError(ms, message)>>)

C14_Witness ==
    /\ winner = "timer"
    /\ timer = "fired"
    /\ promise.state = "fulfilled"
    /\ observed = <<timeoutError(ms, message)>>

\* C15: once the operation has settled first, the timer withTimeout created
\* has been cancelled: it is not pending and it does not fire.
C15_TimerCancelledWhenOperationWins ==
    winner = "operation" => timer = "cleared"

\* the text of the error holds the bound
carriesBound(e, n) == \E i \in 1..Len(e.message) : e.message[i] = ToString(n)

\* C17: the failure the caller is handed when the timer wins carries the
\* bound ms, whether or not the caller gave a message, and its kind is the
\* kind of no failure the wrapped operation can produce.
C17_TimeoutIsDistinctKind ==
    winner = "timer" =>
        /\ carriesBound(observed[1], ms)
        /\ \A o \in OperationOutcomes(ms) :
                o.state = "rejected" => o.name # observed[1].name

-----------------------------------------------------------------------------
(* Termination of the handlers *)

\* C16: every tool invocation completes: a handler that has been invoked
\* returns or fails, also when no remote service ever answers.
C16_EveryInvocationCompletes ==
    (pc # "idle") ~> (pc = "idle")

-----------------------------------------------------------------------------
(* Properties of parseRateLimitHeaders *)

Absent(h) == headers[h] = undefined

\* C18: parseRateLimitHeaders returns null whenever one of the three headers
\* is absent, so a snapshot is returned only when all three are there; when
\* the three headers are the numerals of integers, the snapshot's remaining
\* and limit are those integers and its reset time is the reset integer
\* times 1000.
C18_SnapshotOrNoData ==
    rateLimit.called =>
        /\ ((\E h \in HeaderNames : Absent(h)) => rateLimit = null)
        /\ \A r, l, t \in HeaderIntegers :
                ( /\ headers["x-ratelimit-remaining"] = numeral(r)
                  /\ headers["x-ratelimit-limit"] = numeral(l)
                  /\ headers["x-ratelimit-reset"] = numeral(t) )
                => /\ ~rateLimit.isNull
                   /\ rateLimit.remaining = Num(r)
                   /\ rateLimit.limit = Num(l)
                   /\ rateLimit.reset_at = Num(t * 1000)

C18_Witness ==
    /\ rateLimit.called
    /\ headers["x-ratelimit-remaining"] = <<"4", "8", "9", "2">>
    /\ headers["x-ratelimit-limit"] = <<"5", "0", "0", "0">>
    /\ headers["x-ratelimit-reset"] = <<"1", "0">>
    /\ rateLimit.remaining = Num(4892)
    /\ rateLimit.reset_at = Num(10000)

-----------------------------------------------------------------------------
(* Properties of loadConfig *)

\* C19: with no file and no argument the bypass flag is off, and whenever the
\* loaded configuration has the bypass flag set, by --bypass-permissions or by
\* the configuration file, the startup warning has been written.
C19_BypassIsLoud ==
    /\ ~loadConfig(FALSE, NoFile).bypass_permissions
    /\ (config.bypass_permissions => warned)

\* C20: with no configuration file and no --bypass-permissions, the loaded
\* permissions are read = true, trigger = cancel = admin = false, both lists
\* empty, and checkPermission allows "read" and denies the three other levels,
\* called directly or by a handler.
C20_DefaultsAreReadOnly ==
    /\ config.permissions.read = TRUE
    /\ config.permissions.trigger = FALSE
    /\ config.permissions.cancel = FALSE
    /\ config.permissions.admin = FALSE
    /\ config.permissions.whitelist_repos = <<>>
    /\ config.permissions.blacklist_repos = <<>>
    /\ (PermissionCalled =>
            /\ (call.level = "read" => call.result = Allow)
            /\ (call.level # "read" => call.result = PermissionDenied))
    /\ (Thrown(trace, PermissionDenied) <=>
            (pc = "failed" /\ RequiredLevel(tool) # "read"))

C20_Witness ==
    /\ PermissionCalled
    /\ call.level = "admin"
    /\ call.result = PermissionDenied
    /\ ~warned

-----------------------------------------------------------------------------
(* The repository a request is sent for *)

\* C21: with the bypass flag unset, no remote request is sent for an
\* owner/name pair that a blacklist pattern matches, whatever string the
\* handler was called with.
C21_NoRequestForBlacklistedRepo ==
    ~config.bypass_permissions =>
        \A i \in 1..Len(trace) :
            trace[i][1] = "request" =>
                ~SomePatternMatches(trace[i][3] \o <<Slash>> \o trace[i][4],
                                    config.permissions.blacklist_repos)

-----------------------------------------------------------------------------
(* More properties of the CircuitBreaker *)

\* C22: check() on a closed breaker changes nothing of the breaker and
\* passes; a check() that throws the circuit-open error changes nothing of
\* the breaker; a check() that changes something was called on an open
\* breaker, passes, and leaves it closed with failures = 0 and lastFailure
\* as it was.
C22_CheckOnlyResetsLazily ==
    [][ Check =>
            /\ (~isOpen => (~brCall'.threw /\ failures' = failures
                                /\ lastFailure' = lastFailure /\ isOpen' = isOpen))
            /\ (brCall'.threw => (failures' = failures
                                /\ lastFailure' = lastFailure /\ isOpen' = isOpen))
            /\ ((failures' # failures \/ lastFailure' # lastFailure \/ isOpen' # isOpen)
                    => (isOpen /\ ~isOpen' /\ failures' = 0
                            /\ lastFailure' = lastFailure /\ ~brCall'.threw)) ]_vars

C22_Witness ==
    /\ brCall.op = "check"
    /\ ~brCall.threw
    /\ ~isOpen
    /\ failures = threshold - 1
    /\ lastFailure = now

\* C23: whenever check() throws the circuit-open error, the retry hint it
\* reports is cooldownMs - (now - lastFailure), and that is more than 0 and
\* at most cooldownMs.
C23_RetryHintIsRemainingCooldown ==
    [][ (Check /\ brCall'.threw) =>
            /\ brCall'.retryAfter = cooldownMs - (now - lastFailure)
            /\ brCall'.retryAfter > 0
            /\ brCall'.retryAfter <= cooldownMs ]_vars

\* C25: isOpen changes only when failure() opens a closed breaker or when
\* check() closes an open one whose cooldown has elapsed; time passing
\* changes nothing of the breaker, so an open breaker stays open past its
\* cooldown until check() is called.
C25_OpenFlagChangesOnlyTwice ==
    /\ [][ (isOpen' # isOpen) =>
                \/ (~isOpen /\ isOpen' /\ brCall'.op = "failure")
                \/ (isOpen /\ ~isOpen' /\ brCall'.op = "check"
                        /\ now - lastFailure >= cooldownMs) ]_vars
    /\ [][ (now' # now) =>
                (failures' = failures /\ lastFailure' = lastFailure
                    /\ isOpen' = isOpen) ]_vars

C25_Witness ==
    /\ isOpen
    /\ now - lastFailure > cooldownMs
    /\ brCall.op = "success"

\* C26: a closed breaker has failures < threshold in every reachable state;
\* the lazy reset leaves isOpen = false and failures = 0 together.
C26_ClosedBelowThreshold ==
    /\ [](~isOpen => failures < threshold)
    /\ [][ (isOpen /\ ~isOpen') => failures' = 0 ]_vars

C26_Witness ==
    /\ ~isOpen
    /\ failures = 0
    /\ brCall.op = "check"
    /\ lastFailure > 0
    /\ now - lastFailure > cooldownMs

\* C27: failure() on an open breaker sets lastFailure to the time of that
\* call and leaves the breaker open, also when it restarts failures at 1;
\* every check() called less than cooldownMs after the latest failure throws
\* and leaves the breaker open.
C27_FailureWhileOpenRestartsCooldown ==
    /\ [][ (Failure /\ isOpen) => (isOpen' /\ lastFailure' = now) ]_vars
    /\ [][ (Check /\ isOpen /\ now - lastFailure < cooldownMs) =>
                (brCall'.threw /\ isOpen') ]_vars

C27_Witness ==
    /\ isOpen
    /\ brCall.op = "check"
    /\ brCall.threw
    /\ failures = 1
    /\ lastFailure - StartTime >= cooldownMs
    /\ now > lastFailure

-----------------------------------------------------------------------------
(* The configuration after loadConfig *)

\* the handler has called checkPermission and it returned
PermissionPassed == pc \in {"checkRepoAccess", "parseRepo", "request", "await", "returned"}

\* the handler has called checkRepoAccess and it returned
RepoAccessPassed == pc \in {"parseRepo", "request", "await", "returned"}

-----------------------------------------------------------------------------
(* withTimeout and the wrapped operation *)

\* C28: neither the call of withTimeout nor the expiry of its timer changes
\* the wrapped operation: it is not started again and it is not cancelled,
\* so an operation still pending after the timeout was handed to the caller
\* can still settle.
C28_OperationLeftAlone ==
    /\ [][ (CallWithTimeout \/ TimerFires) => promise' = promise ]_vars
    /\ []( (winner = "timer" /\ promise = Pending) => ENABLED OperationSettles )

C28_Witness ==
    /\ winner = "timer"
    /\ raced.state = "rejected"
    /\ promise = Fulfilled("response")
    /\ elapsed > ms

-----------------------------------------------------------------------------
(* Overlapping calls of the CircuitBreaker *)

NoneRunning == \A c \in Callers : running[c] = NotRunning

\* C24: whenever no method of the breaker is running, failures, lastFailure
\* and isOpen are what the calls made so far give when each is run whole,
\* one after the other: no increment or decrement is lost and no reset is
\* half applied.
C24_CallsAreAtomic ==
    NoneRunning => Breaker = serial

C24_Witness ==
    /\ NoneRunning
    /\ isOpen
    /\ failures = threshold - 1
    /\ serial.failures = threshold - 1
    /\ now > lastFailure

====
